---- MODULE Spec2Model ----
(***************************************************************************)
(* A model of the rrt_service node (rrt_find_path_handler, nbv_handler,    *)
(* waypoints_to_geometry_msgs_points) and of mdi::BezierSpline.            *)
(*                                                                         *)
(* Spec       : one service request handled by the rrt_service node.       *)
(* SpecSpline : one BezierSpline object, constructed and then queried.     *)
(*                                                                         *)
(* mdi::rrt::RRT (rrt.hpp) is not among the sources; grow1, run and the    *)
(* backtracking calls follow section 4.1 of the specification, with every  *)
(* position on the x axis of an integer lattice so that "nearest" and      *)
(* "step toward the sample" are exact. The verdict of the collision check  *)
(* is left open on every call, with or without a map assigned.             *)
(*                                                                         *)
(* Floats are exact rationals: rounding is not modelled. What the source   *)
(* leaves undefined (the null map bound at rrt_service.cpp:243, reads      *)
(* outside a vector) is a choice between the process dying and the         *)
(* operation going on with an arbitrary value.                             *)
(***************************************************************************)
EXTENDS Integers, Sequences, FiniteSets, TLC

\* ------------------------------------------------------------------ bounds
MaxIter == 3        \* largest request.rrt_config.max_iterations tried
MaxGain == 1        \* gains returned by gain_of_fov range over 0..MaxGain
MaxSampleX == 3     \* samples are drawn from <<-1,0,0>> .. <<MaxSampleX,0,0>>
MaxPoints == 2      \* control-point sequences of 1..MaxPoints points (and scenario A's three)
MaxGenerateCalls == 2   \* generate_spline calls on one BezierSpline, the constructor's included

VARIABLES
    \* ---- rrt_service: the request and the handler's position
    handler,            \* "none" | "find_path" | "nbv"
    pc,                 \* "idle" | "fetch" | "run" | "ran" | "loop" | "after_loop" | "done" | "crashed"
    request,            \* [start, goal, max_iterations, step_size, gain_of_interest_threshold]
    octomap_ptr,        \* "unset" | "null" | "map"
    \* ---- the RRT of this request
    nodes,              \* the tree: sequence of [pos, parent], root first, parent = 0 for the root
    i,                  \* iterations consumed (run()'s counter, nbv_handler's loop variable)
    run_result,         \* std::optional<Waypoints> returned by run()
    \* ---- nbv_handler's locals
    best_gain, best_point, found_suitable_nbv, success,
    \* ---- the response and the handler's return value
    response,           \* [waypoints, found_nbv_with_sufficent_gain]
    returned,           \* "pending" | TRUE | FALSE
    \* ---- history (what was called, with what)
    run_called,         \* run() has been invoked
    grow1_calls,        \* number of grow1() calls made
    scored,             \* sequence of [node, gain, call]: the node-created callback's evaluations
    backtracked,        \* sequence of [node, path]: the backtracking calls made and their results
    \* ---- the build, which fixes what the source leaves to it
    build,              \* [ndebug, int_abs]: assert compiled out; abs resolves to ::abs(int)
    \* ---- BezierSpline
    phase,              \* "unconstructed" | "ready" | "aborted"
    input_points,       \* control points, integer coordinates
    resolution, size,
    binomial_lut,
    distance_lut,
    spline_points,      \* sampled points [n, d]: the point n / d, exact
    generate_calls,     \* number of generate_spline calls made
    query               \* the last query and what it returned

svcVars == <<handler, pc, request, octomap_ptr, nodes, i, run_result, best_gain, best_point,
             found_suitable_nbv, success, response, returned, run_called, grow1_calls,
             scored, backtracked>>
splVars == <<build, phase, input_points, resolution, size, binomial_lut, distance_lut,
             spline_points, generate_calls, query>>
vars == <<svcVars, splVars>>

\* ------------------------------------------------------------ vectors
Vec3(x, y, z) == <<x, y, z>>

\* geometry_msgs::Point{}: a zero-initialised message
DefaultPoint == [x |-> 0, y |-> 0, z |-> 0]

Abs(a) == IF a < 0 THEN -a ELSE a

Dist2(p, q) == (p[1] - q[1]) * (p[1] - q[1]) + (p[2] - q[2]) * (p[2] - q[2])
               + (p[3] - q[3]) * (p[3] - q[3])

\* ------------------------------------------------------------ RRT (section 4.1)
None == [has |-> FALSE, value |-> <<>>]
Some(v) == [has |-> TRUE, value |-> v]

\* parent links followed from node n to the root, returned root first
RECURSIVE Backtrack(_, _)
Backtrack(tree, n) ==
    IF tree[n].parent = 0 THEN <<tree[n].pos>>
    ELSE Append(Backtrack(tree, tree[n].parent), tree[n].pos)

\* linear scan over all nodes; the first node at the least distance wins
NearestNode(tree, p) ==
    CHOOSE n \in 1..Len(tree) :
        /\ \A m \in 1..Len(tree) : Dist2(tree[n].pos, p) <= Dist2(tree[m].pos, p)
        /\ \A m \in 1..(n - 1) : Dist2(tree[m].pos, p) > Dist2(tree[n].pos, p)

\* one step of length step from `from' toward `to' (both on the x axis)
Steer(from, to, step) ==
    Vec3(from[1] + (IF to[1] > from[1] THEN step ELSE -step), from[2], from[3])

Samples == {Vec3(x, 0, 0) : x \in -1..MaxSampleX}

\* the tree after grow1() with this sample and this verdict of the collision check;
\* a collision leaves the tree as it is
Grow1(tree, sample, collides, step) ==
    LET near == NearestNode(tree, sample)
        cand == Steer(tree[near].pos, sample, step)
    IN  IF collides THEN tree ELSE Append(tree, [pos |-> cand, parent |-> near])

waypoints_from_newest_node(tree) ==
    IF Len(tree) = 0 THEN None ELSE Some(Backtrack(tree, Len(tree)))

get_waypoints_from_nearsest_node_to(tree, p) ==
    IF Len(tree) = 0 THEN None ELSE Some(Backtrack(tree, NearestNode(tree, p)))

\* ------------------------------------------------------------ rrt_service.cpp
\* std::vector<Point>(wps.size()) holds wps.size() default points already, and
\* std::back_inserter appends one converted point per waypoint behind them
ToGeometryPoint(pt) == [x |-> pt[1], y |-> pt[2], z |-> pt[3]]

waypoints_to_geometry_msgs_points(wps) ==
    [k \in 1..Len(wps) |-> DefaultPoint] \o [k \in 1..Len(wps) |-> ToGeometryPoint(wps[k])]

\* -std::numeric_limits<double>::infinity(): below every gain
NegInfinity == -1
Gains == 0..MaxGain

\* line 251: if (gain > best_gain)
BetterGainLastSeen(gain, best) == gain >= best
BetterGain(gain, best) == gain > best

\* line 259: if (gain >= request.nbv_config.gain_of_interest_threshold)
SuitableGainStrict(gain, threshold) == gain > threshold
SuitableGain(gain, threshold) == gain >= threshold

\* line 150: if (const auto opt = rrt.run())
PathFoundAlways(opt) == TRUE
PathFound(opt) == opt.has

EmptyResponse == [waypoints |-> <<>>, found_nbv_with_sufficent_gain |-> FALSE]

Starts == {Vec3(0, 0, 0), Vec3(1, 0, 0)}
Goals == {Vec3(2, 0, 0), Vec3(3, 0, 0)}
StepSizes == {1, 2}
Tolerances == {0, 1}

Requests ==
    [start : Starts, goal : Goals, max_iterations : 0..MaxIter, step_size : StepSizes,
     goal_tolerance : Tolerances, gain_of_interest_threshold : 0..(MaxGain + 1)]

InitService ==
    /\ handler = "none"
    /\ pc = "idle"
    /\ request = [start |-> Vec3(0, 0, 0), goal |-> Vec3(0, 0, 0), max_iterations |-> 0,
                  step_size |-> 1, goal_tolerance |-> 0, gain_of_interest_threshold |-> 0]
    /\ octomap_ptr = "unset"
    /\ nodes = <<>>
    /\ i = 0
    /\ run_result = None
    /\ best_gain = NegInfinity
    /\ best_point = Vec3(0, 0, 0)
    /\ found_suitable_nbv = FALSE
    /\ success = FALSE
    /\ response = EmptyResponse
    /\ returned = "pending"
    /\ run_called = FALSE
    /\ grow1_calls = 0
    /\ scored = <<>>
    /\ backtracked = <<>>

\* lines 116-142: the request arrives and the RRT is built, rooted at the start
rrt_find_path_handler(req) ==
    /\ pc = "idle"
    /\ req.gain_of_interest_threshold = 0
    /\ handler' = "find_path"
    /\ request' = req
    /\ nodes' = <<[pos |-> req.start, parent |-> 0]>>
    /\ success' = FALSE
    /\ pc' = "fetch"
    /\ UNCHANGED <<octomap_ptr, i, run_result, best_gain, best_point, found_suitable_nbv,
                   response, returned, run_called, grow1_calls, scored, backtracked, splVars>>

\* lines 172-198: the NBV request arrives; goal tolerance and full-path test are 0
nbv_handler(req) ==
    /\ pc = "idle"
    /\ req.goal_tolerance = 0
    /\ handler' = "nbv"
    /\ request' = req
    /\ nodes' = <<[pos |-> req.start, parent |-> 0]>>
    /\ success' = FALSE
    /\ pc' = "fetch"
    /\ UNCHANGED <<octomap_ptr, i, run_result, best_gain, best_point, found_suitable_nbv,
                   response, returned, run_called, grow1_calls, scored, backtracked, splVars>>

\* lines 63-69, 144-148 and 200-211: the map is fetched; a null map is not assigned,
\* and the handler goes on either way
call_get_environment_octomap(map) ==
    /\ pc = "fetch"
    /\ octomap_ptr' = map
    /\ pc' = IF handler = "find_path" THEN "run"
             ELSE IF request.max_iterations = 0 THEN "after_loop" ELSE "loop"
    /\ best_gain' = NegInfinity
    /\ best_point' = Vec3(0, 0, 0)
    /\ found_suitable_nbv' = FALSE
    /\ UNCHANGED <<handler, request, nodes, i, run_result, success, response, returned,
                   run_called, grow1_calls, scored, backtracked, splVars>>

GoalReached(tree) ==
    Dist2(tree[Len(tree)].pos, request.goal) <= request.goal_tolerance * request.goal_tolerance

\* line 150, rrt.run(): one iteration of its loop. The run ends with the path to the
\* newest node once that node is within goal_tolerance of the goal
run_grow(sample, collides) ==
    /\ pc = "run"
    /\ i < request.max_iterations
    /\ \A n \in 1..Len(nodes) : nodes[n].pos # sample
    /\ LET tree == Grow1(nodes, sample, collides, request.step_size)
           hit == ~collides /\ GoalReached(tree)
       IN  /\ nodes' = tree
           /\ run_result' = IF hit THEN waypoints_from_newest_node(tree) ELSE None
           /\ backtracked' = IF hit
                             THEN Append(backtracked, [node |-> Len(tree),
                                                       path |-> Backtrack(tree, Len(tree))])
                             ELSE backtracked
           /\ pc' = IF hit THEN "ran" ELSE "run"
    /\ i' = i + 1
    /\ run_called' = TRUE
    /\ grow1_calls' = grow1_calls + 1
    /\ UNCHANGED <<handler, request, octomap_ptr, best_gain, best_point, found_suitable_nbv,
                   success, response, returned, scored, splVars>>

\* rrt.run(): max_iterations are used up, no path
run_exhausted ==
    /\ pc = "run"
    /\ i >= request.max_iterations
    /\ run_result' = None
    /\ run_called' = TRUE
    /\ pc' = "ran"
    /\ UNCHANGED <<handler, request, octomap_ptr, nodes, i, best_gain, best_point,
                   found_suitable_nbv, success, response, returned, grow1_calls, scored,
                   backtracked, splVars>>

\* lines 150-169: the result of run() becomes the response and the return value
rrt_find_path_return ==
    /\ pc = "ran"
    /\ LET found == PathFound(run_result)
       IN  /\ response' = IF found
                          THEN [response EXCEPT
                                  !.waypoints = waypoints_to_geometry_msgs_points(run_result.value)]
                          ELSE response
           /\ success' = found
           /\ returned' = found
    /\ pc' = "done"
    /\ UNCHANGED <<handler, request, octomap_ptr, nodes, i, run_result, best_gain, best_point,
                   found_suitable_nbv, run_called, grow1_calls, scored, backtracked, splVars>>

\* lines 213-263: the node-created callback, for the node just appended to tree and
\* the gain that gain_of_fov returned for it
NodeCreated(tree, gain) ==
    LET better == BetterGain(gain, best_gain)
    IN  /\ best_gain' = IF better THEN gain ELSE best_gain
        /\ best_point' = IF better THEN tree[Len(tree)].pos ELSE best_point
        /\ found_suitable_nbv' = (found_suitable_nbv
                                  \/ SuitableGain(gain, request.gain_of_interest_threshold))
        /\ scored' = Append(scored, [node |-> Len(tree), gain |-> gain,
                                     call |-> grow1_calls + 1])

\* gain_of_fov is a function of the map and the field of view, which the position of
\* the new node fixes: a position scored before scores the same again
GainAgrees(pos, gain) ==
    \A k \in 1..Len(scored) : nodes[scored[k].node].pos = pos => scored[k].gain = gain

\* lines 265-285: one iteration of the growth loop: grow1(), the callback if a node
\* was created, then the test of found_suitable_nbv. With a null map the callback
\* binds *octomap_environment_ptr (line 243), which is undefined: the process dies,
\* or gain_of_fov returns whatever it computes from the memory it reads
nbv_grow(sample, collides, gain, dies) ==
    /\ pc = "loop"
    /\ i < request.max_iterations
    /\ \A n \in 1..Len(nodes) : nodes[n].pos # sample
    /\ collides => (gain = 0 /\ ~dies)
    /\ dies => octomap_ptr = "null"
    /\ LET tree == Grow1(nodes, sample, collides, request.step_size)
       IN  /\ nodes' = tree
           /\ grow1_calls' = grow1_calls + 1
           /\ (~collides /\ octomap_ptr = "map") => GainAgrees(tree[Len(tree)].pos, gain)
           /\ IF collides
              THEN /\ i' = i + 1
                   /\ pc' = IF i + 1 < request.max_iterations THEN "loop" ELSE "after_loop"
                   /\ UNCHANGED <<best_gain, best_point, found_suitable_nbv, scored, response,
                                  success, backtracked>>
              ELSE IF dies
              THEN /\ pc' = "crashed"
                   /\ UNCHANGED <<i, best_gain, best_point, found_suitable_nbv, scored,
                                  response, success, backtracked>>
              ELSE /\ NodeCreated(tree, gain)
                   /\ IF found_suitable_nbv'
                      THEN LET opt == waypoints_from_newest_node(tree)
                           IN  /\ response' =
                                     IF opt.has
                                     THEN [waypoints |->
                                               waypoints_to_geometry_msgs_points(opt.value),
                                           found_nbv_with_sufficent_gain |-> TRUE]
                                     ELSE [response EXCEPT
                                             !.found_nbv_with_sufficent_gain = FALSE]
                               /\ success' = opt.has
                               /\ backtracked' = Append(backtracked,
                                                        [node |-> Len(tree), path |-> opt.value])
                               /\ i' = i
                               /\ pc' = "after_loop"
                      ELSE /\ i' = i + 1
                           /\ pc' = IF i + 1 < request.max_iterations
                                    THEN "loop" ELSE "after_loop"
                           /\ UNCHANGED <<response, success, backtracked>>
    /\ UNCHANGED <<handler, request, octomap_ptr, run_result, returned, run_called, splVars>>

\* lines 287-302: the fallback to the best point found, and the return value
nbv_return ==
    /\ pc = "after_loop"
    /\ IF ~success
       THEN LET opt == get_waypoints_from_nearsest_node_to(nodes, best_point)
            IN  /\ response' =
                      IF opt.has
                      THEN [waypoints |-> waypoints_to_geometry_msgs_points(opt.value),
                            found_nbv_with_sufficent_gain |-> FALSE]
                      ELSE response
                /\ backtracked' = Append(backtracked, [node |-> NearestNode(nodes, best_point),
                                                       path |-> opt.value])
       ELSE UNCHANGED <<response, backtracked>>
    /\ returned' = success
    /\ pc' = "done"
    /\ UNCHANGED <<handler, request, octomap_ptr, nodes, i, run_result, best_gain, best_point,
                   found_suitable_nbv, success, run_called, grow1_calls, scored, splVars>>

MapFetches == {"null", "map"}

NextService ==
    \/ \E req \in Requests : rrt_find_path_handler(req)
    \/ \E req \in Requests : nbv_handler(req)
    \/ \E map \in MapFetches : call_get_environment_octomap(map)
    \/ \E sample \in Samples, collides \in BOOLEAN : run_grow(sample, collides)
    \/ run_exhausted
    \/ rrt_find_path_return
    \/ \E sample \in Samples, collides \in BOOLEAN, gain \in Gains, dies \in BOOLEAN :
          nbv_grow(sample, collides, gain, dies)
    \/ nbv_return

\* ------------------------------------------------------------ exact arithmetic
\* A float is modelled by the rational <<n, d>>, d > 0, it would hold without rounding.
Rat(n, d) == <<n, d>>
RatLess(a, b) == a[1] * b[2] < b[1] * a[2]
RatLeq(a, b) == a[1] * b[2] <= b[1] * a[2]
RatEq(a, b) == a[1] * b[2] = b[1] * a[2]
RatSub(a, b) == <<a[1] * b[2] - b[1] * a[2], a[2] * b[2]>>
RatAbs(a) == <<Abs(a[1]), a[2]>>
\* (int)x: truncation toward zero
Trunc(a) == IF a[1] >= 0 THEN a[1] \div a[2] ELSE -((-a[1]) \div a[2])

RECURSIVE Pow(_, _)
Pow(x, n) == IF n = 0 THEN 1 ELSE x * Pow(x, n - 1)

RECURSIVE Gcd(_, _)
Gcd(a, b) == IF b = 0 THEN a ELSE Gcd(b, a % b)
Lcm(a, b) == (a \div Gcd(a, b)) * b

\* mdi::utils::binomial_coefficient(n, k): n choose k
RECURSIVE binomial_coefficient(_, _)
binomial_coefficient(n, k) ==
    IF k = 0 \/ k = n THEN 1
    ELSE IF k < 0 \/ k > n THEN 0
    ELSE binomial_coefficient(n - 1, k - 1) + binomial_coefficient(n - 1, k)

\* ------------------------------------------------------------ bezier_spline.cpp
\* lines 70-74: this->size entries are pushed behind the entries already there
generate_binomial_lut(lut, sz) ==
    lut \o [k \in 1..sz |-> binomial_coefficient(sz, k - 1)]

\* lines 41-46: the sum of the terms i..sz-1 of f at t = a / b, over the common
\* denominator b^sz: binomial_lut[i] * t^i * (1 - t)^(size - i) * input_points[i]
RECURSIVE BezierTerms(_, _, _, _, _, _)
BezierTerms(points, lut, sz, a, b, k) ==
    IF k >= sz THEN Vec3(0, 0, 0)
    ELSE LET w == lut[k + 1] * Pow(a, k) * Pow(b - a, sz - k)
             rest == BezierTerms(points, lut, sz, a, b, k + 1)
         IN  Vec3(w * points[k + 1][1] + rest[1], w * points[k + 1][2] + rest[2],
                  w * points[k + 1][3] + rest[3])

\* lines 38-47: f(t), t = <<a, b>>
f(points, lut, sz, t) ==
    [n |-> BezierTerms(points, lut, sz, t[1], t[2], 0), d |-> Pow(t[2], sz)]

\* (int)(arc_length_sum + diff.norm()) - arc_length_sum for the int arc_length_sum of
\* line 54: the whole part of the distance between two sampled points
FloorNorm(p, q) ==
    LET D == Lcm(p.d, q.d)
        dx == [k \in 1..3 |-> p.n[k] * (D \div p.d) - q.n[k] * (D \div q.d)]
        N == dx[1] * dx[1] + dx[2] * dx[2] + dx[3] * dx[3]
    IN  CHOOSE k \in 0..((Abs(dx[1]) + Abs(dx[2]) + Abs(dx[3])) \div D) :
            /\ k * k * D * D <= N
            /\ (k + 1) * (k + 1) * D * D > N

\* the point f returns for the time 0.0f / 0.0f: every coordinate is NaN
NaNPoint == [n |-> Vec3(0, 0, 0), d |-> 0]
IsNaN(p) == p.d = 0

\* lines 57-64: the running int sum after the sampled points 1..t (0-based). With a
\* NaN sample the sum converted back to int is whatever the conversion leaves, g
RECURSIVE ArcLengthSum(_, _, _)
ArcLengthSum(pts, t, g) ==
    IF t = 0 THEN 0
    ELSE IF IsNaN(pts[t]) \/ IsNaN(pts[t + 1]) THEN g
    ELSE ArcLengthSum(pts, t - 1, g) + FloorNorm(pts[t], pts[t + 1])

\* lines 52-65: a 0 and one running sum per further sampled point are pushed behind
\* the entries already there
generate_distance_lut(lut, pts, g) ==
    lut \o <<0>> \o [t \in 1..(Len(pts) - 1) |-> ArcLengthSum(pts, t, g)]

\* lines 29-32: the samples f(t / resolution), t = 0..resolution: none for a negative
\* resolution, and the one sample f(0.0f / 0.0f) for resolution 0
SampleSpline(points, lut, sz, res) ==
    IF res = 0 THEN <<NaNPoint>>
    ELSE [t \in 1..(res + 1) |-> f(points, lut, sz, Rat(t - 1, res))]

Builds == [ndebug : BOOLEAN, int_abs : BOOLEAN]

NoQuery == [op |-> "none"]

InitSpline ==
    /\ phase = "unconstructed"
    /\ input_points = <<>>
    /\ resolution = 0
    /\ size = 0
    /\ binomial_lut = <<>>
    /\ distance_lut = <<>>
    /\ spline_points = <<>>
    /\ generate_calls = 0
    /\ query = NoQuery

\* lines 9-12 and 17-33: the constructor's call and any later call of generate_spline.
\* The distance table is built (line 26) from the samples of the calls before this
\* one, and the samples of this call are pushed behind them (lines 29-32).
generate_spline(points, res, g) ==
    /\ phase \in {"unconstructed", "ready"}
    /\ generate_calls < MaxGenerateCalls
    /\ (\A k \in 1..Len(spline_points) : ~IsNaN(spline_points[k])) => g = 0
    /\ generate_calls' = generate_calls + 1
    /\ input_points' = points
    /\ resolution' = res
    /\ size' = Len(points)
    /\ binomial_lut' = IF Len(binomial_lut) # Len(points)
                       THEN generate_binomial_lut(binomial_lut, Len(points))
                       ELSE binomial_lut
    /\ IF Len(points) # Len(binomial_lut') /\ ~build.ndebug
       THEN \* line 25: the assertion fails
            /\ phase' = "aborted"
            /\ UNCHANGED <<distance_lut, spline_points>>
       ELSE /\ phase' = "ready"
            /\ distance_lut' = generate_distance_lut(distance_lut, spline_points, g)
            /\ spline_points' =
                  spline_points \o SampleSpline(points, binomial_lut', Len(points), res)
    /\ query' = NoQuery
    /\ UNCHANGED <<build, svcVars>>


\* lines 78-81: the assertion on time, then spline_points[(int)(resolution * time)].
\* An index outside spline_points reads memory the vector does not own: the process
\* dies or a point of whatever is there comes back
get_point_at_time(time, dies) ==
    /\ phase = "ready"
    /\ LET in_range == RatLeq(time, Rat(1, 1)) /\ RatLeq(Rat(0, 1), time)
           idx == Trunc(Rat(resolution * time[1], time[2]))
           inside == idx \in 0..(Len(spline_points) - 1)
       IN  /\ dies => (~inside /\ (in_range \/ build.ndebug))
           /\ query' = [op |-> "time", arg |-> time, idx |-> idx,
                        oob |-> ~inside /\ (in_range \/ build.ndebug),
                        outcome |-> IF ~in_range /\ ~build.ndebug THEN "assert_failed"
                                    ELSE IF dies THEN "crash"
                                    ELSE IF inside THEN "point" ELSE "garbage",
                        point |-> IF inside THEN spline_points[idx + 1]
                                  ELSE [n |-> Vec3(0, 0, 0), d |-> 1]]
           /\ phase' = IF query'.outcome \in {"assert_failed", "crash"}
                       THEN "aborted" ELSE "ready"
    /\ UNCHANGED <<build, input_points, resolution, size, binomial_lut, distance_lut,
                   spline_points, generate_calls, svcVars>>

\* distance_lut[k], 0-based; outside the table the read returns what lies there, g
InLut(k) == k \in 0..(Len(distance_lut) - 1)
LutRead(k, g) == IF InLut(k) THEN Rat(distance_lut[k + 1], 1) ELSE Rat(g, 1)

\* line 119: abs(distance_lut[...] - distance); ::abs(int) converts its argument to int
AbsDiff(a, b) ==
    IF build.int_abs THEN Rat(Abs(Trunc(RatSub(a, b))), 1) ELSE RatAbs(RatSub(a, b))

\* lines 117-127: the loop from t_idx on, found_t_idx being found; the result and
\* the indices of distance_lut that were read
RECURSIVE TimeIdxLoop(_, _, _, _)
TimeIdxLoop(distance, g, t_idx, found) ==
    IF t_idx >= resolution THEN [idx |-> found, reads |-> {}]
    ELSE IF RatLess(distance, LutRead(t_idx, g))
    THEN [idx |-> IF RatLess(AbsDiff(LutRead(t_idx, g), distance),
                             AbsDiff(LutRead(t_idx - 1, g), distance))
                  THEN t_idx ELSE t_idx - 1,
          reads |-> {t_idx, t_idx - 1}]
    ELSE LET rest == TimeIdxLoop(distance, g, t_idx + 1, t_idx)
         IN  [idx |-> rest.idx, reads |-> rest.reads \cup {t_idx}]

\* lines 115-129
get_time_idx(distance, g) == TimeIdxLoop(distance, g, 0, 0)

\* a / b for rationals a and b, b # 0
RatDiv(a, b) ==
    IF b[1] > 0 THEN <<a[1] * b[2], a[2] * b[1]>> ELSE <<-(a[1] * b[2]), -(a[2] * b[1])>>

\* lines 85-109. Every read outside distance_lut returns g; when one was made the
\* process may also die
get_point_at_distance(distance, g, dies) ==
    /\ phase = "ready"
    /\ \E ti \in {get_time_idx(distance, g)} :
       LET t_idx == ti.idx
           last == t_idx = resolution
           reads == ti.reads \cup (IF last THEN {} ELSE {t_idx, t_idx + 1})
           oob == (\E k \in reads : ~InLut(k))
                  \/ (last /\ t_idx \notin 0..(Len(spline_points) - 1))
           distance_diff == RatSub(LutRead(t_idx + 1, g), LutRead(t_idx, g))
           distance_diff_given == RatSub(LutRead(t_idx + 1, g), distance)
           finite == distance_diff[1] # 0
           diff_frac == IF finite THEN RatDiv(distance_diff_given, distance_diff)
                        ELSE Rat(0, 1)
           asserted == finite /\ RatLeq(Rat(0, 1), diff_frac) /\ RatLeq(diff_frac, Rat(1, 1))
           t == Rat(t_idx * diff_frac[2] + diff_frac[1], diff_frac[2] * resolution)
           outcome == IF dies THEN "crash"
                      ELSE IF last THEN (IF oob THEN "garbage" ELSE "point")
                      ELSE IF ~asserted /\ ~build.ndebug THEN "assert_failed"
                      ELSE IF ~finite THEN "nan"
                      ELSE "point"
       IN  /\ dies => oob
           /\ ~oob => g = 0
           /\ query' = [op |-> "distance", arg |-> distance, idx |-> t_idx, oob |-> oob,
                        outcome |-> outcome,
                        t |-> IF outcome = "point" /\ ~last THEN t ELSE Rat(0, 1),
                        point |-> IF outcome # "point" THEN [n |-> Vec3(0, 0, 0), d |-> 1]
                                  ELSE IF last THEN spline_points[t_idx + 1]
                                  ELSE f(input_points, binomial_lut, size, t)]
           /\ phase' = IF query'.outcome \in {"assert_failed", "crash"}
                       THEN "aborted" ELSE "ready"
    /\ UNCHANGED <<build, input_points, resolution, size, binomial_lut, distance_lut,
                   spline_points, generate_calls, svcVars>>

Pts == {Vec3(0, 0, 0), Vec3(1, 2, 0), Vec3(2, 0, 0)}
ScenarioA == <<Vec3(0, 0, 0), Vec3(1, 2, 0), Vec3(2, 0, 0)>>
ControlPointInputs == UNION {[1..n -> Pts] : n \in 0..MaxPoints} \cup {ScenarioA}
Resolutions == {-1, 0, 1, 2, 10}
Times == {Rat(0, 1), Rat(1, 2), Rat(1, 1), Rat(-1, 2), Rat(3, 2)}
Distances == {Rat(-1, 1), Rat(0, 1), Rat(1, 2), Rat(1, 1), Rat(3, 1)}
Garbage == {-1, 0, 2}

NextSpline ==
    \/ \E points \in ControlPointInputs, res \in Resolutions, g \in Garbage :
          generate_spline(points, res, g)
    \/ \E time \in Times, dies \in BOOLEAN : get_point_at_time(time, dies)
    \/ \E distance \in Distances, g \in Garbage, dies \in BOOLEAN :
          get_point_at_distance(distance, g, dies)

Init == InitService /\ InitSpline /\ build = [ndebug |-> FALSE, int_abs |-> FALSE]

Next == NextService

Spec == Init /\ [][Next]_vars

InitSplineBuild == InitService /\ InitSpline /\ build \in Builds

SpecSpline == InitSplineBuild /\ [][NextSpline]_vars

\* ------------------------------------------------------------ claims on rrt_service
Last(seq) == seq[Len(seq)]

\* the last n entries of seq
Tail_(seq, n) == SubSeq(seq, Len(seq) - n + 1, Len(seq))

Threshold == request.gain_of_interest_threshold

\* the first evaluation with the highest gain
FirstBest ==
    CHOOSE k \in 1..Len(scored) :
        /\ \A m \in 1..Len(scored) : scored[m].gain <= scored[k].gain
        /\ \A m \in 1..(k - 1) : scored[m].gain < scored[k].gain

\* C1: the waypoints of a response are exactly the points of the backtracked path:
\* as many, in the same order, the first one the root (the start) and the last one
\* the node the path was asked for.
C1_WaypointsAreTheBacktrackedPath ==
    (pc = "done" /\ backtracked # <<>>) =>
        LET path == Last(backtracked).path
        IN  /\ Len(response.waypoints) = Len(path)
            /\ \A k \in 1..Len(path) : response.waypoints[k] = ToGeometryPoint(path[k])
            /\ response.waypoints[1] = ToGeometryPoint(request.start)
            /\ Last(response.waypoints) = ToGeometryPoint(nodes[Last(backtracked).node].pos)

\* C2: with a null map neither run() nor grow1() is invoked, the map is not
\* dereferenced and no waypoints are returned.
C2_NullMapAbortsTheRequest ==
    octomap_ptr = "null" =>
        /\ ~run_called
        /\ grow1_calls = 0
        /\ pc # "crashed"
        /\ response.waypoints = <<>>

\* C3 (as amended): NBV growth stops the first time a new node's score is greater
\* than or equal to gain_of_interest_threshold: a score at or above the threshold
\* sets found_suitable_nbv, and once it is set the scoring call was the last grow1()
\* call, every earlier score was below the threshold, the path was backtracked from
\* the newest node, and the response says found_nbv_with_sufficent_gain.
C3_GrowthStopsAtFirstSuitableGain ==
    handler = "nbv" =>
        /\ (\E k \in 1..Len(scored) : scored[k].gain >= Threshold) => found_suitable_nbv
        /\ found_suitable_nbv =>
              /\ pc \in {"after_loop", "done"}
              /\ Last(scored).gain >= Threshold
              /\ \A k \in 1..(Len(scored) - 1) : scored[k].gain < Threshold
              /\ grow1_calls = Last(scored).call
              /\ Last(scored).node = Len(nodes)
              /\ backtracked = <<[node |-> Len(nodes), path |-> Backtrack(nodes, Len(nodes))]>>
              /\ Tail_(response.waypoints, Len(Last(backtracked).path))
                    = [k \in 1..Len(Last(backtracked).path)
                           |-> ToGeometryPoint(Last(backtracked).path[k])]
              /\ response.found_nbv_with_sufficent_gain
              /\ success

\* C3 witness: growth stopped before max_iterations on a score equal to the threshold,
\* after an earlier node scored below it.
C3_Witness ==
    /\ handler = "nbv" /\ pc = "done" /\ found_suitable_nbv
    /\ Len(scored) >= 2
    /\ Last(scored).gain = Threshold
    /\ grow1_calls < request.max_iterations
    /\ returned = TRUE

\* C3 as stated: only a score strictly above the threshold stops growth; a score
\* equal to the threshold does not.
C3_StopsOnlyAboveThreshold ==
    (handler = "nbv" /\ found_suitable_nbv) =>
        /\ Last(scored).gain > Threshold
        /\ \A k \in 1..(Len(scored) - 1) : scored[k].gain <= Threshold

\* C4: when every score of an NBV request on a fetched map is below the threshold,
\* the response has found_nbv_with_sufficent_gain = FALSE and its path is
\* backtracked from the highest-scoring node, the first one scored among equals.
C4_FallbackIsFirstBestNode ==
    (/\ handler = "nbv" /\ pc = "done" /\ octomap_ptr = "map"
     /\ scored # <<>>
     /\ \A k \in 1..Len(scored) : scored[k].gain < Threshold) =>
        /\ ~response.found_nbv_with_sufficent_gain
        /\ backtracked = <<[node |-> scored[FirstBest].node,
                            path |-> Backtrack(nodes, scored[FirstBest].node)]>>
        /\ Tail_(response.waypoints, Len(Last(backtracked).path))
              = [k \in 1..Len(Last(backtracked).path)
                     |-> ToGeometryPoint(Last(backtracked).path[k])]

\* C4 witness: a finished fallback in which two nodes at different positions share
\* the highest score and the first of them is neither the root nor the newest node.
C4_Witness ==
    /\ handler = "nbv" /\ pc = "done" /\ octomap_ptr = "map"
    /\ scored # <<>>
    /\ \A k \in 1..Len(scored) : scored[k].gain < Threshold
    /\ \E k \in 1..Len(scored) :
          /\ k # FirstBest
          /\ scored[k].gain = scored[FirstBest].gain
          /\ nodes[scored[k].node].pos # nodes[scored[FirstBest].node].pos
    /\ scored[FirstBest].node < Len(nodes)
    /\ Last(backtracked).node = scored[FirstBest].node

\* C5: an NBV request that uses up max_iterations without a suitable gain returns
\* true, with the fallback waypoints and found_nbv_with_sufficent_gain = FALSE.
C5_ExhaustedSearchReturnsTrue ==
    (/\ handler = "nbv" /\ pc = "done" /\ ~found_suitable_nbv
     /\ request.max_iterations > 0 /\ grow1_calls = request.max_iterations
     /\ scored # <<>>) =>
        /\ returned = TRUE
        /\ ~response.found_nbv_with_sufficent_gain
        /\ response.waypoints # <<>>

\* C6: rrt_find_path_handler returns true and fills response.waypoints exactly when
\* run() returned a path; when run() returned nothing, max_iterations are used up,
\* it returns false and response.waypoints stays empty.
C6_SuccessIffRunReturnedAPath ==
    (handler = "find_path" /\ pc = "done") =>
        /\ returned = run_result.has
        /\ run_result.has =>
              /\ response.waypoints # <<>>
              /\ Tail_(response.waypoints, Len(run_result.value))
                    = [k \in 1..Len(run_result.value) |-> ToGeometryPoint(run_result.value[k])]
        /\ ~run_result.has =>
              /\ returned = FALSE
              /\ i = request.max_iterations
              /\ response.waypoints = <<>>

\* C6 witness: run() found a path of at least three points and the handler
\* returned true with waypoints.
C6_Witness ==
    /\ handler = "find_path" /\ pc = "done"
    /\ run_result.has /\ Len(run_result.value) >= 3
    /\ returned = TRUE
    /\ response.waypoints # <<>>

\* ------------------------------------------------------------ claims on BezierSpline
\* the sampled point sp is the integer point P
PointIs(sp, P) == sp.n = Vec3(P[1] * sp.d, P[2] * sp.d, P[3] * sp.d)

SamePoint(p, q) == \A k \in 1..3 : p.n[k] * q.d = q.n[k] * p.d

\* the inputs the constructor is specified for
ValidInputs == size >= 1 /\ resolution >= 1

\* the object as the constructor left it, built from such inputs
Constructed == phase = "ready" /\ generate_calls = 1 /\ ValidInputs

\* the Bernstein-basis sum of degree n at t = a / b, terms k..n, over the
\* denominator b^n: binomial(n, i) * t^i * (1 - t)^(n - i) * P_i
RECURSIVE BernsteinTerms(_, _, _, _, _)
BernsteinTerms(points, n, a, b, k) ==
    IF k > n THEN Vec3(0, 0, 0)
    ELSE LET w == binomial_coefficient(n, k) * Pow(a, k) * Pow(b - a, n - k)
             rest == BernsteinTerms(points, n, a, b, k + 1)
         IN  Vec3(w * points[k + 1][1] + rest[1], w * points[k + 1][2] + rest[2],
                  w * points[k + 1][3] + rest[3])

BernsteinPoint(points, t) ==
    [n |-> BernsteinTerms(points, Len(points) - 1, t[1], t[2], 0),
     d |-> Pow(t[2], Len(points) - 1)]

\* the sum of the weights f gives the control points at t = a / b, times b^size
WeightSum(a, b) ==
    BezierTerms([k \in 1..size |-> Vec3(1, 1, 1)], binomial_lut, size, a, b, 0)[1]

\* the sum over the sampled points 1..t (0-based) of the coordinate-wise distances,
\* times the samples' common denominator: at least the arc length
RECURSIVE L1Sum(_, _)
L1Sum(pts, t) ==
    IF t = 0 THEN 0
    ELSE L1Sum(pts, t - 1) + Abs(pts[t].n[1] - pts[t + 1].n[1])
         + Abs(pts[t].n[2] - pts[t + 1].n[2]) + Abs(pts[t].n[3] - pts[t + 1].n[3])

\* C7: after construction get_point_at_time(0) is the first control point and
\* get_point_at_time(1) is the last control point.
C7_EndpointsAreControlPoints ==
    (/\ generate_calls = 1 /\ ValidInputs
     /\ query.op = "time" /\ query.arg \in {Rat(0, 1), Rat(1, 1)}) =>
        /\ query.outcome = "point"
        /\ query.arg = Rat(0, 1) => PointIs(query.point, input_points[1])
        /\ query.arg = Rat(1, 1) => PointIs(query.point, input_points[size])

\* C8: f(t) is the Bernstein-basis sum of degree (number of control points - 1), its
\* weights sum to 1 at every t, and for the control points (0,0,0), (1,2,0), (2,0,0)
\* at resolution 10 get_point_at_time(0.5) is (1,1,0).
C8_CurveIsBernsteinSum ==
    Constructed =>
        /\ \A k \in 0..resolution :
              /\ SamePoint(spline_points[k + 1], BernsteinPoint(input_points, Rat(k, resolution)))
              /\ WeightSum(k, resolution) = Pow(resolution, size)
        /\ (/\ input_points = ScenarioA /\ resolution = 10
            /\ query.op = "time" /\ query.arg = Rat(1, 2)) =>
              PointIs(query.point, Vec3(1, 1, 0))

\* C9: after construction distance_lut has one entry per sampled point, that is
\* resolution + 1 entries, starts at 0, never decreases, and ends at the total arc
\* length (which lies between the sum of the whole parts of the distances between
\* consecutive samples and the sum of their coordinate-wise distances).
C9_DistanceLutIsArcLength ==
    Constructed =>
        /\ Len(distance_lut) = resolution + 1
        /\ Len(distance_lut) = Len(spline_points)
        /\ distance_lut[1] = 0
        /\ \A k \in 1..(Len(distance_lut) - 1) : distance_lut[k] <= distance_lut[k + 1]
        /\ ArcLengthSum(spline_points, resolution, 0) <= distance_lut[Len(distance_lut)]
        /\ distance_lut[Len(distance_lut)] * spline_points[1].d
              <= L1Sum(spline_points, resolution)

\* C10: get_point_at_distance(d) returns the first sampled point for d <= 0 and the
\* last sampled point for d at or beyond the total arc length, reading no table
\* entry outside its bounds.
C10_DistanceClamps ==
    (generate_calls = 1 /\ ValidInputs /\ query.op = "distance") =>
        /\ RatLeq(query.arg, Rat(0, 1)) =>
              /\ ~query.oob
              /\ query.outcome = "point"
              /\ SamePoint(query.point, spline_points[1])
        /\ RatLeq(Rat(L1Sum(spline_points, resolution), spline_points[1].d), query.arg) =>
              /\ ~query.oob
              /\ query.outcome = "point"
              /\ SamePoint(query.point, spline_points[resolution + 1])

\* C11: for every d with 0 <= d <= total arc length the index get_time_idx chooses
\* brackets d, distance_lut[i] <= d <= distance_lut[i+1] with both entries inside the
\* table, so the assertion on diff_frac holds and the interval width is not zero.
C11_IndexBracketsDistance ==
    (/\ generate_calls = 1 /\ ValidInputs /\ query.op = "distance"
     /\ RatLeq(Rat(0, 1), query.arg)
     /\ RatLeq(query.arg, Rat(ArcLengthSum(spline_points, resolution, 0), 1))) =>
        /\ ~query.oob
        /\ query.outcome \notin {"assert_failed", "crash", "nan"}
        /\ query.idx # resolution =>
              /\ InLut(query.idx) /\ InLut(query.idx + 1)
              /\ RatLeq(Rat(distance_lut[query.idx + 1], 1), query.arg)
              /\ RatLeq(query.arg, Rat(distance_lut[query.idx + 2], 1))
              /\ distance_lut[query.idx + 1] # distance_lut[query.idx + 2]

\* C12: after any sequence of generate_spline calls the binomial-coefficient table
\* has exactly as many entries as the current control points, so the assertion
\* points.size() == binomial_lut.size() never fails. Stated for calls that sampled
\* the curve, that is, calls with at least one control point and resolution > 0.
C12_BinomialLutMatchesControlPoints ==
    (/\ generate_calls >= 1 /\ ValidInputs
     /\ spline_points # <<>> /\ \A k \in 1..Len(spline_points) : ~IsNaN(spline_points[k])) =>
        /\ Len(binomial_lut) = size
        /\ query = NoQuery => phase = "ready"

\* C13: constructing with no control point or with resolution <= 0 is rejected before
\* construction begins: no binomial entry, sample or arc-length entry is computed.
C13_InvalidInputsAreRejected ==
    (generate_calls = 1 /\ ~ValidInputs /\ query = NoQuery) =>
        /\ phase # "ready"
        /\ binomial_lut = <<>>
        /\ distance_lut = <<>>
        /\ spline_points = <<>>

\* C14: get_point_at_time(t) returns the sample at index floor(resolution * t) for
\* every t in [0,1], that index lying inside the sampled points, and fails without
\* returning a point for every t outside [0,1].
C14_TimeLookupIsRangeChecked ==
    (generate_calls = 1 /\ ValidInputs /\ query.op = "time") =>
        IF RatLeq(Rat(0, 1), query.arg) /\ RatLeq(query.arg, Rat(1, 1))
        THEN /\ query.outcome = "point"
             /\ ~query.oob
             /\ query.idx = Trunc(Rat(resolution * query.arg[1], query.arg[2]))
             /\ query.idx \in 0..(Len(spline_points) - 1)
             /\ query.point = spline_points[query.idx + 1]
        ELSE query.outcome = "assert_failed"

\* C15: inside a bracketing interval [i,i+1] get_point_at_distance maps d to
\* t = (i + (d - distance_lut[i]) / (distance_lut[i+1] - distance_lut[i])) / resolution,
\* so the fraction grows with the distance.
C15_FractionGrowsWithDistance ==
    (/\ ValidInputs /\ query.op = "distance" /\ ~query.oob
     /\ query.outcome = "point" /\ query.idx # resolution) =>
        LET lo == distance_lut[query.idx + 1]
            hi == distance_lut[query.idx + 2]
            d == query.arg
            expected == <<query.idx * d[2] * (hi - lo) + d[1] - lo * d[2],
                          d[2] * (hi - lo) * resolution>>
        IN  /\ hi # lo
            /\ query.t[1] * expected[2] = expected[1] * query.t[2]

\* C16: nbv_handler always terminates: it calls grow1() at most max_iterations times,
\* exactly max_iterations times when no node's score meets the threshold, and then
\* returns after at most one backtracking call; found_suitable_nbv, once set, stays
\* set. The handler never ends in another way than by returning.
C16_NbvHandlerTerminates ==
    handler = "nbv" =>
        /\ i <= request.max_iterations
        /\ grow1_calls <= request.max_iterations
        /\ Len(backtracked) <= 1
        /\ (\E k \in 1..Len(scored) : scored[k].gain >= Threshold) => found_suitable_nbv
        /\ pc # "crashed"
        /\ (pc \in {"after_loop", "done"} /\ ~found_suitable_nbv) =>
              grow1_calls = request.max_iterations
        /\ pc = "done" => returned \in BOOLEAN

\* C17: whenever nbv_handler takes the fallback branch, best_point is the position
\* of a node created and scored during this request, also when every grow1() was a
\* collision no-op and the node-created callback never fired.
C17_FallbackPointIsAScoredNode ==
    (/\ handler = "nbv" /\ pc = "done" /\ ~found_suitable_nbv
     /\ request.max_iterations > 0 /\ grow1_calls = request.max_iterations) =>
        \E k \in 1..Len(scored) : nodes[scored[k].node].pos = best_point

====
